---------------------------- MODULE Spec2Model ----------------------------
(***************************************************************************)
(* A model of keepass-rs' src/xml_parse.rs: parse_xml_block, the streaming *)
(* decoder that turns the XML event stream of a KDBX payload into          *)
(* (Option<Metadata>, Group), and parse_xml_timestamp.                     *)
(*                                                                         *)
(* The event stream is the input.  It is produced by xml-rs' EventReader,  *)
(* which only ever closes the innermost open element, reports every other  *)
(* malformation as an Err item and ends the stream after it.               *)
(***************************************************************************)
EXTENDS Integers, Sequences, FiniteSets, TLC

(***************************************************************************)
(* Bounds of the model.                                                    *)
(***************************************************************************)
\* Number of builder nodes (recognized element opens) in one event stream.
MaxNodes == 3
\* Depth of element nesting in one event stream.
MaxDepth == 3
\* Number of calls of the inner cipher in one event stream.
MaxDecrypts == 2

(***************************************************************************)
(* Text.  A text is a TLA+ string; Chars spells the texts of the model's   *)
(* universe as sequences of characters so that the conversions below can   *)
(* be computed character by character, as the code's library calls do.    *)
(***************************************************************************)
Chars(t) ==
    CASE t = "" -> <<>>
    [] t = "a" -> <<"a">>
    [] t = "b" -> <<"b">>
    [] t = "k" -> <<"k">>
    [] t = "QQ==" -> <<"Q", "Q", "=", "=">>
    [] t = "/w==" -> <<"/", "w", "=", "=">>
    [] t = "True" -> <<"T", "r", "u", "e">>
    [] t = "true" -> <<"t", "r", "u", "e">>
    [] t = "false" -> <<"f", "a", "l", "s", "e">>
    [] t = "1" -> <<"1">>
    [] t = "7" -> <<"7">>
    [] t = "256" -> <<"2", "5", "6">>
    [] t = "+7" -> <<"+", "7">>
    [] t = "d1" -> <<"d", "1">>
    [] t = "d2" -> <<"d", "2">>
    [] t = "2023-09-01T00:00:00Z" ->
         <<"2", "0", "2", "3", "-", "0", "9", "-", "0", "1", "T",
           "0", "0", ":", "0", "0", ":", "0", "0", "Z">>
    [] t = "gFEBAAAAAAA=" ->
         <<"g", "F", "E", "B", "A", "A", "A", "A", "A", "A", "A", "=">>
    [] t = "/////////38=" ->
         <<"/", "/", "/", "/", "/", "/", "/", "/", "/", "3", "8", "=">>
    [] t = "!" -> <<"!">>

UpperCase == <<"A", "B", "C", "D", "E", "F", "G", "H", "I", "J", "K", "L", "M",
               "N", "O", "P", "Q", "R", "S", "T", "U", "V", "W", "X", "Y", "Z">>

LowerCase == <<"a", "b", "c", "d", "e", "f", "g", "h", "i", "j", "k", "l", "m",
               "n", "o", "p", "q", "r", "s", "t", "u", "v", "w", "x", "y", "z">>

Digits == <<"0", "1", "2", "3", "4", "5", "6", "7", "8", "9">>

Range(s) == {s[i] : i \in DOMAIN s}

IndexOf(s, ch) == CHOOSE i \in DOMAIN s : s[i] = ch

\* str::to_lowercase, on the ASCII letters
ToLowerChar(ch) ==
    IF ch \in Range(UpperCase) THEN LowerCase[IndexOf(UpperCase, ch)] ELSE ch

ToLowercase(cs) == [i \in DOMAIN cs |-> ToLowerChar(cs[i])]

\* Option<T>: None is <<>>, Some(x) is <<x>>
None == <<>>

Some(x) == <<x>>

\* str::parse::<bool>: exactly "true" or "false"
ParseBool(cs) ==
    IF cs = <<"t", "r", "u", "e">> THEN Some(TRUE)
    ELSE IF cs = <<"f", "a", "l", "s", "e">> THEN Some(FALSE)
    ELSE None

UnwrapOr(opt, dflt) == IF opt = None THEN dflt ELSE opt[1]

DigitVal(ch) == IndexOf(Digits, ch) - 1

RECURSIVE DecimalValue(_)
\* the number a nonempty sequence of digits denotes, capped above u8::MAX + 1
\* so that the accumulation stays small: decimal overflow is sticky
DecimalValue(ds) ==
    IF ds = <<>> THEN 0
    ELSE LET hi == DecimalValue(SubSeq(ds, 1, Len(ds) - 1))
             v  == hi * 10 + DigitVal(ds[Len(ds)])
         IN  IF v > 255 THEN 256 ELSE v

\* a bug: a number above u8::MAX is stored as u8::MAX
ParseU8_saturating(cs) ==
    LET ds == IF cs # <<>> /\ cs[1] = "+" THEN Tail(cs) ELSE cs
    IN  IF ds = <<>> \/ \E i \in DOMAIN ds : ds[i] \notin Range(Digits) THEN None
        ELSE IF DecimalValue(ds) > 255 THEN Some(255)
        ELSE Some(DecimalValue(ds))

\* str::parse::<u8>: an optional '+', then one or more digits, at most 255
ParseU8(cs) ==
    LET ds == IF cs # <<>> /\ cs[1] = "+" THEN Tail(cs) ELSE cs
    IN  IF ds = <<>> \/ \E i \in DOMAIN ds : ds[i] \notin Range(Digits) THEN None
        ELSE IF DecimalValue(ds) > 255 THEN None
        ELSE Some(DecimalValue(ds))

(***************************************************************************)
(* base64::decode (standard alphabet).  Padding, when present, completes   *)
(* the last quantum; a dangling single symbol, a character outside the     *)
(* alphabet and non-zero trailing bits are errors.                         *)
(***************************************************************************)
B64Alphabet == UpperCase \o LowerCase \o Digits \o <<"+", "/">>

B64Val(ch) == IndexOf(B64Alphabet, ch) - 1

RECURSIVE PadCount(_)
PadCount(cs) ==
    IF cs # <<>> /\ cs[Len(cs)] = "="
    THEN 1 + PadCount(SubSeq(cs, 1, Len(cs) - 1))
    ELSE 0

RECURSIVE DecodeQuanta(_)
\* the bytes that a sequence of 6-bit symbols holds
DecodeQuanta(syms) ==
    IF Len(syms) >= 4
    THEN LET v == ((syms[1] * 64 + syms[2]) * 64 + syms[3]) * 64 + syms[4]
         IN  <<v \div 65536, (v \div 256) % 256, v % 256>>
                 \o DecodeQuanta(SubSeq(syms, 5, Len(syms)))
    ELSE IF Len(syms) = 3
    THEN LET v == (syms[1] * 64 + syms[2]) * 64 + syms[3]
         IN  <<v \div 1024, (v \div 4) % 256>>
    ELSE IF Len(syms) = 2
    THEN <<(syms[1] * 64 + syms[2]) \div 16>>
    ELSE <<>>

TrailingBits(syms) ==
    IF Len(syms) % 4 = 2 THEN syms[Len(syms)] % 16
    ELSE IF Len(syms) % 4 = 3 THEN syms[Len(syms)] % 4
    ELSE 0

\* None on a decode error, Some(bytes) otherwise
Base64Decode(cs) ==
    LET pad  == PadCount(cs)
        body == SubSeq(cs, 1, Len(cs) - pad)
        syms == [i \in DOMAIN body |-> B64Val(body[i])]
    IN  IF \E i \in DOMAIN body : body[i] \notin Range(B64Alphabet) THEN None
        ELSE IF pad > 2 \/ Len(body) % 4 = 1 THEN None
        ELSE IF pad > 0 /\ (Len(body) + pad) % 4 # 0 THEN None
        ELSE IF TrailingBits(syms) # 0 THEN None
        ELSE Some(DecodeQuanta(syms))

(***************************************************************************)
(* std::str::from_utf8: whether a byte sequence is well-formed UTF-8.      *)
(***************************************************************************)
RECURSIVE ValidUtf8(_)
ValidUtf8(bs) ==
    IF bs = <<>> THEN TRUE
    ELSE LET b       == bs[1]
             Cont(i) == i <= Len(bs) /\ bs[i] >= 128 /\ bs[i] <= 191
             Rest(n) == SubSeq(bs, n + 1, Len(bs))
         IN  IF b < 128 THEN ValidUtf8(Rest(1))
             ELSE IF b >= 194 /\ b <= 223
             THEN Cont(2) /\ ValidUtf8(Rest(2))
             ELSE IF b >= 224 /\ b <= 239
             THEN /\ Cont(2) /\ Cont(3)
                  /\ (b = 224 => bs[2] >= 160)
                  /\ (b = 237 => bs[2] <= 159)
                  /\ ValidUtf8(Rest(3))
             ELSE IF b >= 240 /\ b <= 244
             THEN /\ Cont(2) /\ Cont(3) /\ Cont(4)
                  /\ (b = 240 => bs[2] >= 144)
                  /\ (b = 244 => bs[2] <= 143)
                  /\ ValidUtf8(Rest(4))
             ELSE FALSE

(***************************************************************************)
(* The injected inner cipher: a stream cipher whose state is its position  *)
(* in the keystream.  decrypt consumes one keystream byte per ciphertext   *)
(* byte.                                                                   *)
(***************************************************************************)
Keystream(j) == (j * 192) % 256

CipherDecrypt(pos, buf) ==
    [i \in DOMAIN buf |-> (buf[i] + 256 - Keystream(pos + i - 1)) % 256]

CipherAdvance(pos, buf) == pos + Len(buf)

(***************************************************************************)
(* 64-bit signed integers are kept as their 8 little-endian bytes          *)
(* (i64::from_le_bytes): TLC's integers are 32 bits wide.                  *)
(***************************************************************************)
I64IsNeg(a) == a[8] >= 128

RECURSIVE UnsignedLess(_, _, _)
\* a < b as unsigned numbers, comparing from byte i downwards
UnsignedLess(a, b, i) ==
    IF i = 0 THEN FALSE
    ELSE IF a[i] # b[i] THEN a[i] < b[i]
    ELSE UnsignedLess(a, b, i - 1)

I64Less(a, b) ==
    IF I64IsNeg(a) # I64IsNeg(b) THEN I64IsNeg(a) ELSE UnsignedLess(a, b, 8)

RECURSIVE AddOne(_, _)
AddOne(a, i) ==
    IF i > 8 THEN a
    ELSE IF a[i] = 255 THEN AddOne([a EXCEPT ![i] = 0], i + 1)
    ELSE [a EXCEPT ![i] = a[i] + 1]

\* two's complement negation
I64Negate(a) == AddOne([i \in 1..8 |-> 255 - a[i]], 1)

RECURSIVE DivMod(_, _, _, _)
\* <<quotient, remainder>> of the unsigned number a by the seconds of a day
DivMod(a, i, q, r) ==
    IF i = 0 THEN <<q, r>>
    ELSE LET cur == r * 256 + a[i]
         IN  DivMod(a, i - 1, q * 256 + cur \div 86400, cur % 86400)

(***************************************************************************)
(* chrono.  A NaiveDateTime is [days, secs]: the days since 0001-01-01 and *)
(* the second of the day.  NaiveDate covers the years -262144 .. 262143;   *)
(* Duration::seconds panics beyond +-i64::MAX / 1000 seconds.              *)
(***************************************************************************)
\* 262143-12-31T23:59:59 and -262144-01-01T00:00:00 as offsets from the epoch
MaxEpochOffset == <<255, 149, 125, 19, 134, 7, 0, 0>>

MinEpochOffset == <<0, 96, 189, 232, 121, 248, 255, 255>>

MaxDurationSecs == <<247, 83, 227, 165, 155, 196, 32, 0>>

MinDurationSecs == <<9, 172, 28, 90, 100, 59, 223, 255>>

\* a bug: the offset is divided towards zero, its sign dropped
EpochPlusSeconds_towardsZero(a) ==
    LET qr == DivMod(IF I64IsNeg(a) THEN I64Negate(a) ELSE a, 8, 0, 0)
    IN  [days |-> qr[1], secs |-> qr[2]]

\* epoch + Duration::seconds(n), for n within the range of NaiveDateTime
EpochPlusSeconds(a) ==
    IF I64IsNeg(a)
    THEN LET qr == DivMod(I64Negate(a), 8, 0, 0)
         IN  IF qr[2] = 0 THEN [days |-> 0 - qr[1], secs |-> 0]
             ELSE [days |-> 0 - qr[1] - 1, secs |-> 86400 - qr[2]]
    ELSE LET qr == DivMod(a, 8, 0, 0)
         IN  [days |-> qr[1], secs |-> qr[2]]

IsLeapYear(y) == (y % 4 = 0 /\ y % 100 # 0) \/ y % 400 = 0

DaysInMonth(y, m) ==
    IF m = 2 THEN (IF IsLeapYear(y) THEN 29 ELSE 28)
    ELSE IF m \in {4, 6, 9, 11} THEN 30 ELSE 31

RECURSIVE DaysBeforeMonth(_, _)
DaysBeforeMonth(y, m) ==
    IF m = 1 THEN 0 ELSE DaysBeforeMonth(y, m - 1) + DaysInMonth(y, m - 1)

\* days from 0001-01-01 to y-m-d in the proleptic Gregorian calendar
DaysFromEpoch(y, m, d) ==
    LET p == y - 1
    IN  365 * p + (p \div 4) - (p \div 100) + (p \div 400)
            + DaysBeforeMonth(y, m) + (d - 1)

AllDigits(cs, from, to) == \A i \in from..to : cs[i] \in Range(Digits)

\* NaiveDateTime::parse_from_str(t, "%Y-%m-%dT%H:%M:%SZ") on the fixed-width
\* form YYYY-MM-DDTHH:MM:SSZ; None when t is not such a timestamp
IsoParse(cs) ==
    IF Len(cs) # 20 THEN None
    ELSE IF ~ /\ AllDigits(cs, 1, 4) /\ cs[5] = "-"
              /\ AllDigits(cs, 6, 7) /\ cs[8] = "-"
              /\ AllDigits(cs, 9, 10) /\ cs[11] = "T"
              /\ AllDigits(cs, 12, 13) /\ cs[14] = ":"
              /\ AllDigits(cs, 15, 16) /\ cs[17] = ":"
              /\ AllDigits(cs, 18, 19) /\ cs[20] = "Z"
    THEN None
    ELSE LET N2(i) == DigitVal(cs[i]) * 10 + DigitVal(cs[i + 1])
             y  == N2(1) * 100 + N2(3)
             mo == N2(6)
             d  == N2(9)
             h  == N2(12)
             mi == N2(15)
             s  == N2(18)
         IN  IF mo \in 1..12 /\ d >= 1 /\ d <= DaysInMonth(y, mo)
                  /\ h <= 23 /\ mi <= 59 /\ s <= 59
             THEN Some([days |-> DaysFromEpoch(y, mo, d),
                        secs |-> (h * 60 + mi) * 60 + s])
             ELSE None

(***************************************************************************)
(* parse_xml_timestamp.  The result is [tag |-> "Ok", ndt |-> ..], the     *)
(* decode error [tag |-> "Err"], or [tag |-> "panic", msg |-> ..] where    *)
(* the function panics instead of returning.                               *)
(***************************************************************************)
\* the function on the characters of its argument
parse_xml_timestamp_chars(cs) ==
    LET iso == IsoParse(cs)
        v   == Base64Decode(cs)
    IN  IF iso # None THEN [tag |-> "Ok", ndt |-> iso[1]]
        ELSE IF v = None THEN [tag |-> "Err", kind |-> "DatabaseIntegrity(base64)"]
        ELSE IF Len(v[1]) < 8
        THEN [tag |-> "panic", msg |-> "range end index 8 out of range for slice"]
        ELSE LET a == SubSeq(v[1], 1, 8)
             IN  IF I64Less(MaxDurationSecs, a) \/ I64Less(a, MinDurationSecs)
                 THEN [tag |-> "panic", msg |-> "Duration::seconds out of bounds"]
                 ELSE IF I64Less(MaxEpochOffset, a) \/ I64Less(a, MinEpochOffset)
                 THEN [tag |-> "panic", msg |-> "NaiveDateTime + Duration overflowed"]
                 ELSE [tag |-> "Ok", ndt |-> EpochPlusSeconds(a)]

parse_xml_timestamp(t) == parse_xml_timestamp_chars(Chars(t))

(***************************************************************************)
(* The data model (db.rs): the fields this decoder reads and writes, each  *)
(* default-initialized.  A map is a function from its keys.  The uid of a  *)
(* Group or Entry is instrumentation: the ordinal of the builder node, so  *)
(* that nodes with equal content can be told apart.                        *)
(***************************************************************************)
EmptyMap == <<>>

MapInsert(m, k, v) == [x \in DOMAIN m \cup {k} |-> IF x = k THEN v ELSE m[x]]

Unprotected(text) == [variant |-> "Unprotected", text |-> text]

Protected(bytes) == [variant |-> "Protected", secret |-> bytes]

IconID(n) == [variant |-> "IconID", id |-> n]

CustomIconRef(uuid) == [variant |-> "CustomIcon", uuid |-> uuid]

DefaultIcon == IconID(0)

DefaultGroup(uid) ==
    [type |-> "Group", name |-> "", children |-> <<>>, times |-> EmptyMap,
     expires |-> FALSE, icon |-> DefaultIcon, uid |-> uid]

DefaultEntry(uid) ==
    [type |-> "Entry", fields |-> EmptyMap, times |-> EmptyMap,
     autotype |-> None, expires |-> FALSE, icon |-> DefaultIcon, uid |-> uid]

DefaultMetadata ==
    [type |-> "Metadata", generator |-> "", name |-> "", description |-> "",
     custom_icons |-> EmptyMap]

DefaultAutoType ==
    [type |-> "AutoType", enabled |-> FALSE, sequence |-> None,
     associations |-> <<>>]

DefaultAutoTypeAssociation ==
    [type |-> "AutoTypeAssociation", window |-> None, sequence |-> None]

(***************************************************************************)
(* enum Node, and the node that the open of an element pushes.             *)
(***************************************************************************)
\* a bug: the open of an Association element pushes an AutoType node
NewNode_wrongVariant(local_name, uid) ==
    CASE local_name = "Meta" -> Some(DefaultMetadata)
      [] local_name = "Group" -> Some(DefaultGroup(uid))
      [] local_name = "Entry" -> Some(DefaultEntry(uid))
      [] local_name = "String" ->
            Some([type |-> "KeyValue", key |-> "", value |-> Unprotected("")])
      [] local_name = "AutoType" -> Some(DefaultAutoType)
      [] local_name = "Association" -> Some(DefaultAutoType)
      [] local_name = "ExpiryTime" -> Some([type |-> "ExpiryTime", et |-> ""])
      [] local_name = "Expires" -> Some([type |-> "Expires", es |-> FALSE])
      [] local_name = "IconID" -> Some([type |-> "Icon", icon |-> IconID(0)])
      [] local_name = "CustomIconUUID" ->
            Some([type |-> "Icon", icon |-> CustomIconRef("")])
      [] local_name = "Icon" ->
            Some([type |-> "CustomIcon", uuid |-> "", data |-> ""])
      [] OTHER -> None

\* None for an element name that pushes nothing
NewNode(local_name, uid) ==
    CASE local_name = "Meta" -> Some(DefaultMetadata)
      [] local_name = "Group" -> Some(DefaultGroup(uid))
      [] local_name = "Entry" -> Some(DefaultEntry(uid))
      [] local_name = "String" ->
            Some([type |-> "KeyValue", key |-> "", value |-> Unprotected("")])
      [] local_name = "AutoType" -> Some(DefaultAutoType)
      [] local_name = "Association" -> Some(DefaultAutoTypeAssociation)
      [] local_name = "ExpiryTime" -> Some([type |-> "ExpiryTime", et |-> ""])
      [] local_name = "Expires" -> Some([type |-> "Expires", es |-> FALSE])
      [] local_name = "IconID" -> Some([type |-> "Icon", icon |-> IconID(0)])
      [] local_name = "CustomIconUUID" ->
            Some([type |-> "Icon", icon |-> CustomIconRef("")])
      [] local_name = "Icon" ->
            Some([type |-> "CustomIcon", uuid |-> "", data |-> ""])
      [] OTHER -> None

\* a bug: the close of an Expires element pops nothing
ClosingNames_short ==
    {"Meta", "Group", "Entry", "String", "AutoType", "Association",
     "ExpiryTime", "IconID", "CustomIconUUID", "Icon"}

\* the element names whose close pops a node
ClosingNames ==
    {"Meta", "Group", "Entry", "String", "AutoType", "Association",
     "ExpiryTime", "Expires", "IconID", "CustomIconUUID", "Icon"}

Top(stack) == stack[Len(stack)]

Front(stack) == SubSeq(stack, 1, Len(stack) - 1)

TopIs(stack, type) == stack # <<>> /\ Top(stack).type = type

SetTop(stack, node) == [stack EXCEPT ![Len(stack)] = node]

(***************************************************************************)
(* XmlEvent::StartElement                                                  *)
(***************************************************************************)
\* whether the Protected attribute (None when absent) asks for protection
ProtectedRequested(attr) ==
    IF attr = None THEN FALSE
    ELSE UnwrapOr(ParseBool(ToLowercase(Chars(attr[1]))), FALSE)

\* a bug: marking the value protected clears the key
MarkProtected_clearsKey(stack) ==
    IF TopIs(stack, "KeyValue")
    THEN SetTop(stack, [Top(stack) EXCEPT !.key = "", !.value = Protected(<<>>)])
    ELSE stack

\* "Transform value to a Value::Protected"
MarkProtected(stack) ==
    IF TopIs(stack, "KeyValue")
    THEN SetTop(stack, [Top(stack) EXCEPT !.value = Protected(<<>>)])
    ELSE stack

\* a bug: a Value that does not ask for protection resets the KeyValue
OnStartElement_reset(local_name, attr, stack, uid) ==
    IF local_name = "Value"
    THEN IF ProtectedRequested(attr) THEN MarkProtected(stack)
         ELSE IF TopIs(stack, "KeyValue")
         THEN SetTop(stack, [Top(stack) EXCEPT !.value = Unprotected("")])
         ELSE stack
    ELSE IF NewNode(local_name, uid) # None
    THEN Append(stack, NewNode(local_name, uid)[1])
    ELSE stack

\* the builder stack after the open of local_name
OnStartElement(local_name, attr, stack, uid) ==
    IF local_name = "Value"
    THEN IF ProtectedRequested(attr) THEN MarkProtected(stack) ELSE stack
    ELSE IF NewNode(local_name, uid) # None
    THEN Append(stack, NewNode(local_name, uid)[1])
    ELSE stack

(***************************************************************************)
(* XmlEvent::EndElement: the finished node is linked into the new top of   *)
(* the builder stack.  A result is the builder stack, the root group, the  *)
(* metadata and the panic message, if the handler panics.                  *)
(***************************************************************************)
Result(stack, root, meta) ==
    [parsed_stack |-> stack, root_group |-> root, metadata |-> meta,
     panic |-> None]

\* a bug: the first value written for a key is kept
FieldsInsert_keepFirst(fields, k, v) ==
    IF k \in DOMAIN fields THEN fields ELSE MapInsert(fields, k, v)

FieldsInsert(fields, k, v) == MapInsert(fields, k, v)

\* a bug: the finished child is put in front of its siblings
ChildrenPush_front(children, node) == <<node>> \o children

ChildrenPush(children, node) == Append(children, node)

LinkKeyValue(finished, rest, root, meta) ==
    IF TopIs(rest, "Entry")
    THEN Result(SetTop(rest, [Top(rest) EXCEPT
                 !.fields = FieldsInsert(@, finished.key, finished.value)]),
                root, meta)
    ELSE Result(rest, root, meta)

\* a bug: the metadata captured first is kept
LinkMetadata_keepFirst(finished, rest, root, meta) ==
    Result(rest, root, IF meta = None THEN Some(finished) ELSE meta)

LinkMetadata(finished, rest, root, meta) == Result(rest, root, Some(finished))

\* a bug: the root assigned first is kept
LinkGroup_keepFirst(finished, rest, root, meta) ==
    IF TopIs(rest, "Group")
    THEN Result(SetTop(rest, [Top(rest) EXCEPT
                 !.children = ChildrenPush(@, finished)]), root, meta)
    ELSE IF rest = <<>> /\ root.uid = 0 THEN Result(rest, finished, meta)
    ELSE Result(rest, root, meta)

\* a bug: a Group that closes under a parent of another type becomes the root
LinkGroup_rootAnyway(finished, rest, root, meta) ==
    IF TopIs(rest, "Group")
    THEN Result(SetTop(rest, [Top(rest) EXCEPT
                 !.children = ChildrenPush(@, finished)]), root, meta)
    ELSE Result(rest, finished, meta)

LinkGroup(finished, rest, root, meta) ==
    IF TopIs(rest, "Group")
    THEN Result(SetTop(rest, [Top(rest) EXCEPT
                 !.children = ChildrenPush(@, finished)]), root, meta)
    ELSE IF rest = <<>> THEN Result(rest, finished, meta)
    ELSE Result(rest, root, meta)

\* a bug: an Entry that closes under an Entry hands it its fields and icon
LinkEntry_merges(finished, rest, root, meta) ==
    IF TopIs(rest, "Group")
    THEN Result(SetTop(rest, [Top(rest) EXCEPT
                 !.children = ChildrenPush(@, finished)]), root, meta)
    ELSE IF TopIs(rest, "Entry")
    THEN Result(SetTop(rest, [Top(rest) EXCEPT !.fields = finished.fields,
                                               !.icon = finished.icon]),
                root, meta)
    ELSE Result(rest, root, meta)

\* a bug: a finished Entry is never linked
LinkEntry_lost(finished, rest, root, meta) == Result(rest, root, meta)

LinkEntry(finished, rest, root, meta) ==
    IF TopIs(rest, "Group")
    THEN Result(SetTop(rest, [Top(rest) EXCEPT
                 !.children = ChildrenPush(@, finished)]), root, meta)
    ELSE Result(rest, root, meta)

LinkAutoType(finished, rest, root, meta) ==
    IF TopIs(rest, "Entry")
    THEN Result(SetTop(rest, [Top(rest) EXCEPT !.autotype = Some(finished)]),
                root, meta)
    ELSE Result(rest, root, meta)

LinkAutoTypeAssociation(finished, rest, root, meta) ==
    IF TopIs(rest, "AutoType")
    THEN Result(SetTop(rest, [Top(rest) EXCEPT
                 !.associations = Append(@, finished)]), root, meta)
    ELSE Result(rest, root, meta)

LinkExpiryTime(finished, rest, root, meta) ==
    IF TopIs(rest, "Entry") \/ TopIs(rest, "Group")
    THEN LET t == parse_xml_timestamp(finished.et)
         IN  IF t.tag = "Ok"
             THEN Result(SetTop(rest, [Top(rest) EXCEPT
                          !.times = MapInsert(@, "ExpiryTime", t.ndt)]),
                         root, meta)
             ELSE IF t.tag = "panic"
             THEN [Result(rest, root, meta) EXCEPT !.panic = Some(t.msg)]
             ELSE Result(rest, root, meta)
    ELSE Result(rest, root, meta)

LinkExpires(finished, rest, root, meta) ==
    IF TopIs(rest, "Entry") \/ TopIs(rest, "Group")
    THEN Result(SetTop(rest, [Top(rest) EXCEPT !.expires = finished.es]),
                root, meta)
    ELSE Result(rest, root, meta)

LinkIcon(finished, rest, root, meta) ==
    IF TopIs(rest, "Entry") \/ TopIs(rest, "Group")
    THEN Result(SetTop(rest, [Top(rest) EXCEPT !.icon = finished.icon]),
                root, meta)
    ELSE Result(rest, root, meta)

LinkCustomIcon(finished, rest, root, meta) ==
    IF TopIs(rest, "Metadata")
    THEN Result(SetTop(rest, [Top(rest) EXCEPT
                 !.custom_icons = MapInsert(@, finished.uuid, finished.data)]),
                root, meta)
    ELSE Result(rest, root, meta)

\* match finished_node
Link(finished, rest, root, meta) ==
    CASE finished.type = "KeyValue" -> LinkKeyValue(finished, rest, root, meta)
      [] finished.type = "Metadata" -> LinkMetadata(finished, rest, root, meta)
      [] finished.type = "Group" -> LinkGroup(finished, rest, root, meta)
      [] finished.type = "Entry" -> LinkEntry(finished, rest, root, meta)
      [] finished.type = "AutoType" -> LinkAutoType(finished, rest, root, meta)
      [] finished.type = "AutoTypeAssociation" ->
            LinkAutoTypeAssociation(finished, rest, root, meta)
      [] finished.type = "ExpiryTime" ->
            LinkExpiryTime(finished, rest, root, meta)
      [] finished.type = "Expires" -> LinkExpires(finished, rest, root, meta)
      [] finished.type = "Icon" -> LinkIcon(finished, rest, root, meta)
      [] finished.type = "CustomIcon" ->
            LinkCustomIcon(finished, rest, root, meta)

\* a bug: the close of any element pops a node
OnEndElement_popAny(local_name, stack, root, meta) ==
    IF stack = <<>> THEN Result(stack, root, meta)
    ELSE Link(Top(stack), Front(stack), root, meta)

\* the state after the close of local_name
OnEndElement(local_name, stack, root, meta) ==
    IF local_name \notin ClosingNames THEN Result(stack, root, meta)
    ELSE IF stack = <<>>
    THEN [Result(stack, root, meta) EXCEPT
            !.panic = Some("called Option::unwrap() on a None value")]
    ELSE Link(Top(stack), Front(stack), root, meta)

(***************************************************************************)
(* XmlEvent::Characters                                                    *)
(***************************************************************************)
\* a bug: decrypted bytes that are not UTF-8 are stored instead of refused
DecryptProtected_lossy(c, pos, cipher_ok) ==
    LET buf == Base64Decode(Chars(c))
    IN  IF buf = None
        THEN [tag |-> "Err", kind |-> "DatabaseIntegrity(base64)",
              pos |-> pos, calls |-> 0]
        ELSE IF ~cipher_ok
        THEN [tag |-> "Err", kind |-> "Cipher", pos |-> pos, calls |-> 1]
        ELSE [tag |-> "Ok", secret |-> CipherDecrypt(pos, buf[1]),
              pos |-> CipherAdvance(pos, buf[1]), calls |-> 1]

\* the protected branch of a Value's text: base64, the cipher, UTF-8.
\* calls is the number of calls of inner_cipher.decrypt that were made.
DecryptProtected(c, pos, cipher_ok) ==
    LET buf == Base64Decode(Chars(c))
    IN  IF buf = None
        THEN [tag |-> "Err", kind |-> "DatabaseIntegrity(base64)",
              pos |-> pos, calls |-> 0]
        ELSE IF ~cipher_ok
        THEN [tag |-> "Err", kind |-> "Cipher", pos |-> pos, calls |-> 1]
        ELSE IF ~ValidUtf8(CipherDecrypt(pos, buf[1]))
        THEN [tag |-> "Err", kind |-> "DatabaseIntegrity(utf8)",
              pos |-> CipherAdvance(pos, buf[1]), calls |-> 1]
        ELSE [tag |-> "Ok", secret |-> CipherDecrypt(pos, buf[1]),
              pos |-> CipherAdvance(pos, buf[1]), calls |-> 1]

\* whether text in elem (None outside every element) with this builder stack
\* takes the protected branch
DecryptContext(elem, stack) ==
    /\ elem = Some("Value")
    /\ TopIs(stack, "KeyValue")
    /\ Top(stack).value.variant = "Protected"

Dispatched(stack, pos) ==
    [parsed_stack |-> stack, inner_cipher |-> pos, err |-> None, calls |-> 0]

\* a bug: the decrypted text of a protected Value is appended to the secret
ValueText_accumulates(c, stack, pos, cipher_ok) ==
    IF Top(stack).value.variant = "Unprotected"
    THEN Dispatched(SetTop(stack, [Top(stack) EXCEPT !.value = Unprotected(c)]),
                    pos)
    ELSE LET d == DecryptProtected(c, pos, cipher_ok)
         IN  IF d.tag = "Ok"
             THEN [parsed_stack |-> SetTop(stack, [Top(stack) EXCEPT
                         !.value = Protected(@.secret \o d.secret)]),
                   inner_cipher |-> d.pos, err |-> None, calls |-> d.calls]
             ELSE [parsed_stack |-> stack, inner_cipher |-> d.pos,
                   err |-> Some(d.kind), calls |-> d.calls]

\* a bug: the text of an unprotected Value advances the keystream
ValueText_advances(c, stack, pos, cipher_ok) ==
    IF Top(stack).value.variant = "Unprotected"
    THEN Dispatched(SetTop(stack, [Top(stack) EXCEPT !.value = Unprotected(c)]),
                    pos + 1)
    ELSE LET d == DecryptProtected(c, pos, cipher_ok)
         IN  IF d.tag = "Ok"
             THEN [parsed_stack |-> SetTop(stack, [Top(stack) EXCEPT
                                       !.value = Protected(d.secret)]),
                   inner_cipher |-> d.pos, err |-> None, calls |-> d.calls]
             ELSE [parsed_stack |-> stack, inner_cipher |-> d.pos,
                   err |-> Some(d.kind), calls |-> d.calls]

\* Value text with a KeyValue on top
ValueText(c, stack, pos, cipher_ok) ==
    IF Top(stack).value.variant = "Unprotected"
    THEN Dispatched(SetTop(stack, [Top(stack) EXCEPT !.value = Unprotected(c)]),
                    pos)
    ELSE LET d == DecryptProtected(c, pos, cipher_ok)
         IN  IF d.tag = "Ok"
             THEN [parsed_stack |-> SetTop(stack, [Top(stack) EXCEPT
                                       !.value = Protected(d.secret)]),
                   inner_cipher |-> d.pos, err |-> None, calls |-> d.calls]
             ELSE [parsed_stack |-> stack, inner_cipher |-> d.pos,
                   err |-> Some(d.kind), calls |-> d.calls]

\* match (xml_stack.last(), parsed_stack.last_mut())
OnCharacters(elem, c, stack, pos, cipher_ok) ==
    LET In(n, type) == elem = Some(n) /\ TopIs(stack, type)
        Set(node)   == Dispatched(SetTop(stack, node), pos)
        top         == Top(stack)
    IN  CASE In("Name", "Group") -> Set([top EXCEPT !.name = c])
          [] In("ExpiryTime", "ExpiryTime") -> Set([top EXCEPT !.et = c])
          [] In("Expires", "Expires") -> Set([top EXCEPT !.es = (c = "True")])
          [] In("Key", "KeyValue") -> Set([top EXCEPT !.key = c])
          [] In("Value", "KeyValue") -> ValueText(c, stack, pos, cipher_ok)
          [] In("Enabled", "AutoType") ->
                Set([top EXCEPT !.enabled = UnwrapOr(ParseBool(Chars(c)), FALSE)])
          [] In("DefaultSequence", "AutoType") ->
                Set([top EXCEPT !.sequence = Some(c)])
          [] In("Window", "AutoTypeAssociation") ->
                Set([top EXCEPT !.window = Some(c)])
          [] In("KeystrokeSequence", "AutoTypeAssociation") ->
                Set([top EXCEPT !.sequence = Some(c)])
          [] In("IconID", "Icon") /\ top.icon.variant = "IconID" ->
                Set([top EXCEPT !.icon = IconID(UnwrapOr(ParseU8(Chars(c)), 0))])
          [] In("CustomIconUUID", "Icon") /\ top.icon.variant = "CustomIcon" ->
                Set([top EXCEPT !.icon = CustomIconRef(c)])
          [] In("Generator", "Metadata") -> Set([top EXCEPT !.generator = c])
          [] In("DatabaseName", "Metadata") -> Set([top EXCEPT !.name = c])
          [] In("DatabaseDescription", "Metadata") ->
                Set([top EXCEPT !.description = c])
          [] In("UUID", "CustomIcon") -> Set([top EXCEPT !.uuid = c])
          [] In("Data", "CustomIcon") -> Set([top EXCEPT !.data = c])
          [] OTHER -> Dispatched(stack, pos)

(***************************************************************************)
(* The state of one call of parse_xml_block.                               *)
(***************************************************************************)
VARIABLES
    xml_stack,      \* stack of XML element names
    parsed_stack,   \* stack of parsed Node objects not yet linked
    root_group,     \* the root group to return
    metadata,       \* the metadata to return
    inner_cipher,   \* the injected cipher: its keystream position
    outcome,        \* running, or how the call ended
    reader,         \* the EventReader's own stack of open elements: for each
                    \* its name and, as instrumentation, whether it is a
                    \* protected Value and the decrypt calls made for its text
    doc,            \* the vocabulary of the event stream (an input bound)
    created,        \* instrumentation: builder nodes pushed so far
    decrypts,       \* instrumentation: calls of inner_cipher.decrypt so far
    close_log,      \* instrumentation: the Group and Entry elements closed
    last            \* instrumentation: the event processed last

vars == <<xml_stack, parsed_stack, root_group, metadata, inner_cipher,
          outcome, reader, doc, created, decrypts, close_log, last>>

\* Bounded vocabularies of event streams: the element names, the texts of
\* Characters events (keys: those delivered inside a Key element) and the
\* values of the Protected attribute.
TreeDoc ==
    [names |-> {"Group", "Entry", "History", "Name"},
     texts |-> {"a"}, attrs |-> {}, keys |-> {}]

FieldDoc ==
    [names |-> {"Entry", "String", "Key", "Value"},
     texts |-> {"a", "b"}, attrs |-> {"True", "false"}, keys |-> {"k"}]

ProtectedDoc ==
    [names |-> {"String", "Value"},
     texts |-> {"k", "QQ==", "/w=="}, attrs |-> {"True", "1"}, keys |-> {}]

TimeDoc ==
    [names |-> {"Group", "Entry", "ExpiryTime", "Expires"},
     texts |-> {"True", "!", "2023-09-01T00:00:00Z", "gFEBAAAAAAA=",
                "/////////38="},
     attrs |-> {}, keys |-> {}]

IconDoc ==
    [names |-> {"Entry", "IconID", "CustomIconUUID"},
     texts |-> {"7", "256", "+7", "a"}, attrs |-> {}, keys |-> {}]

MetaDoc ==
    [names |-> {"Meta", "Icon", "UUID", "Data"},
     texts |-> {"d1", "d2"}, attrs |-> {}, keys |-> {}]

AutoTypeDoc ==
    [names |-> {"Entry", "AutoType", "Association", "Enabled", "Window"},
     texts |-> {"true"}, attrs |-> {}, keys |-> {}]

Docs == {TreeDoc, FieldDoc, ProtectedDoc, TimeDoc, IconDoc, MetaDoc, AutoTypeDoc}

NoTag == [name |-> "", prot |-> FALSE, decrypts |-> 0]

NoEvent ==
    [ev |-> "none", attr |-> None, requested |-> FALSE, text |-> "",
     cipher_ok |-> TRUE,
     finished |-> "", head |-> "", overwrote |-> FALSE, tag |-> NoTag]

TypeOfTop(stack) == IF stack = <<>> THEN "" ELSE Top(stack).type

Init ==
    /\ xml_stack = <<>>
    /\ parsed_stack = <<>>
    /\ root_group = DefaultGroup(0)
    /\ metadata = None
    /\ inner_cipher = 0
    /\ outcome = [tag |-> "running"]
    /\ reader = <<>>
    /\ doc \in Docs
    /\ created = 0
    /\ decrypts = 0
    /\ close_log = <<>>
    /\ last = NoEvent

\* the call ends without a value: its locals are dropped
Dropped ==
    /\ xml_stack' = <<>>
    /\ parsed_stack' = <<>>
    /\ root_group' = DefaultGroup(0)
    /\ metadata' = None
    /\ reader' = <<>>

Names(r) == [i \in DOMAIN r |-> r[i].name]

\* the innermost recognized element among the open elements, "" if none
RECURSIVE EnclosingNode(_)
EnclosingNode(names) ==
    IF names = <<>> THEN ""
    ELSE IF Top(names) \in {"Meta", "Group", "Entry", "String", "AutoType",
                            "Association", "ExpiryTime", "Expires", "IconID",
                            "CustomIconUUID", "Icon"}
    THEN Top(names)
    ELSE EnclosingNode(Front(names))

GroupDepth(names) == Cardinality({i \in DOMAIN names : names[i] = "Group"})

XmlPop(stack) == IF stack = <<>> THEN stack ELSE Front(stack)

StartElement(local_name, attr) ==
    /\ outcome.tag = "running"
    /\ Len(reader) < MaxDepth
    /\ NewNode(local_name, 0) # None => created < MaxNodes
    /\ LET pushes == NewNode(local_name, 0) # None
           stack  == OnStartElement(local_name, attr, parsed_stack, created + 1)
           tag    == [name |-> local_name,
                      prot |-> /\ local_name = "Value"
                               /\ TopIs(stack, "KeyValue")
                               /\ Top(stack).value.variant = "Protected",
                      decrypts |-> 0]
       IN  /\ xml_stack' = Append(xml_stack, local_name)
           /\ parsed_stack' = stack
           /\ created' = IF pushes THEN created + 1 ELSE created
           /\ reader' = Append(reader, tag)
           /\ last' = [NoEvent EXCEPT !.ev = "Start", !.attr = attr,
                                      !.requested = ProtectedRequested(attr)]
    /\ UNCHANGED <<root_group, metadata, inner_cipher, outcome, doc, decrypts,
                   close_log>>

\* the reader closes its innermost open element
EndElement ==
    /\ outcome.tag = "running"
    /\ reader # <<>>
    /\ LET local_name == Top(reader).name
           r          == OnEndElement(local_name, parsed_stack, root_group,
                                      metadata)
           pops       == local_name \in ClosingNames /\ parsed_stack # <<>>
           finished   == Top(parsed_stack)
           rest       == Front(parsed_stack)
           enclosing  == Names(Front(reader))
       IN  /\ IF r.panic = None
              THEN /\ xml_stack' = XmlPop(xml_stack)
                   /\ parsed_stack' = r.parsed_stack
                   /\ root_group' = r.root_group
                   /\ metadata' = r.metadata
                   /\ outcome' = outcome
                   /\ reader' = Front(reader)
              ELSE /\ Dropped
                   /\ outcome' = [tag |-> "panic", msg |-> r.panic[1]]
           /\ close_log' =
                 IF pops /\ finished.type \in {"Group", "Entry"}
                 THEN Append(close_log,
                             [uid |-> finished.uid, kind |-> finished.type,
                              depth |-> GroupDepth(enclosing),
                              parent |-> EnclosingNode(enclosing)])
                 ELSE close_log
           /\ last' = [NoEvent EXCEPT
                 !.ev = "End",
                 !.finished = IF pops THEN finished.type ELSE "",
                 !.head = IF pops THEN TypeOfTop(rest) ELSE "",
                 !.overwrote =
                      \/ /\ pops /\ finished.type = "KeyValue"
                         /\ TopIs(rest, "Entry")
                         /\ finished.key \in DOMAIN Top(rest).fields
                         /\ Top(rest).fields[finished.key] # finished.value
                      \/ /\ pops /\ finished.type = "Metadata"
                         /\ metadata \notin {None, Some(finished)},
                 !.tag = Top(reader)]
    /\ UNCHANGED <<inner_cipher, doc, created, decrypts>>

Characters(c, cipher_ok) ==
    /\ outcome.tag = "running"
    /\ LET elem == IF xml_stack = <<>> THEN None ELSE Some(Top(xml_stack))
           r    == OnCharacters(elem, c, parsed_stack, inner_cipher, cipher_ok)
       IN  /\ DecryptContext(elem, parsed_stack) => decrypts < MaxDecrypts
           /\ ~DecryptContext(elem, parsed_stack) => cipher_ok
           /\ inner_cipher' = r.inner_cipher
           /\ decrypts' = decrypts + r.calls
           /\ IF r.err = None
              THEN /\ parsed_stack' = r.parsed_stack
                   /\ reader' = IF r.calls = 0 \/ reader = <<>> THEN reader
                                ELSE SetTop(reader, [Top(reader) EXCEPT
                                         !.decrypts = @ + r.calls])
                   /\ UNCHANGED <<xml_stack, root_group, metadata, outcome>>
              ELSE /\ Dropped
                   /\ outcome' = [tag |-> "Err", kind |-> r.err[1]]
           /\ last' = [NoEvent EXCEPT !.ev = "Characters", !.text = c,
                                      !.cipher_ok = cipher_ok,
                                      !.head = TypeOfTop(parsed_stack)]
    /\ UNCHANGED <<doc, created, close_log>>

\* every other Ok item of the reader: ignored
OtherEvent ==
    /\ outcome.tag = "running"
    /\ UNCHANGED vars

\* an Err item of the reader: e.unwrap()
TokenizerError ==
    /\ outcome.tag = "running"
    /\ Dropped
    /\ outcome' = [tag |-> "panic",
                   msg |-> "called Result::unwrap() on an Err value"]
    /\ last' = [NoEvent EXCEPT !.ev = "Error"]
    /\ UNCHANGED <<inner_cipher, doc, created, decrypts, close_log>>

\* the reader is exhausted after the end of a well-formed document:
\* Ok((metadata, root_group))
EndOfStream ==
    /\ outcome.tag = "running"
    /\ reader = <<>>
    /\ outcome' = [tag |-> "Ok", metadata |-> metadata,
                   root_group |-> root_group]
    /\ last' = [NoEvent EXCEPT !.ev = "EndOfStream"]
    /\ UNCHANGED <<xml_stack, parsed_stack, root_group, metadata, inner_cipher,
                   reader, doc, created, decrypts, close_log>>

Next ==
    \/ \E n \in doc.names :
          \E attr \in (IF n = "Value"
                       THEN {None} \cup {Some(a) : a \in doc.attrs}
                       ELSE {None}) : StartElement(n, attr)
    \/ EndElement
    \/ \E c \in (IF xml_stack # <<>> /\ Top(xml_stack) = "Key"
                 THEN doc.keys ELSE doc.texts) :
          \E ok \in BOOLEAN : Characters(c, ok)
    \/ OtherEvent
    \/ TokenizerError
    \/ EndOfStream

Spec == Init /\ [][Next]_vars

(***************************************************************************)
(* The claims.                                                             *)
(***************************************************************************)
IsTree(n) == n.type \in {"Group", "Entry"}

RECURSIVE CountUid(_, _)
\* the number of nodes with this uid in the tree of a Group or an Entry
CountUid(n, u) ==
    LET own == IF n.uid = u THEN 1 ELSE 0
        RECURSIVE Sum(_)
        Sum(cs) == IF cs = <<>> THEN 0
                   ELSE CountUid(cs[1], u) + Sum(Tail(cs))
    IN  IF n.type = "Group" THEN own + Sum(n.children) ELSE own

RECURSIVE CountInStack(_, _)
CountInStack(stack, u) ==
    IF stack = <<>> THEN 0
    ELSE (IF IsTree(stack[1]) THEN CountUid(stack[1], u) ELSE 0)
            + CountInStack(Tail(stack), u)

\* how often a node occurs in the trees held by the builder stack and the root
Occurrences(stack, root, u) == CountInStack(stack, u) + CountUid(root, u)

RECURSIVE PostOrder(_, _)
\* the nodes of a tree in post-order, each with its depth
PostOrder(n, d) ==
    LET RECURSIVE Each(_)
        Each(cs) == IF cs = <<>> THEN <<>>
                    ELSE PostOrder(cs[1], d + 1) \o Each(Tail(cs))
        own == <<[uid |-> n.uid, kind |-> n.type, depth |-> d]>>
    IN  IF n.type = "Group" THEN Each(n.children) \o own ELSE own

\* the Group and Entry elements of the document in the order of their closes
ClosedElements ==
    [i \in DOMAIN close_log |->
        [uid |-> close_log[i].uid, kind |-> close_log[i].kind,
         depth |-> close_log[i].depth]]

\* the document's Groups and Entries form one tree: every one of them lies
\* directly (or through unrecognized wrappers) in a Group, but for the one
\* top-level Group, which closes last
TreeDocument ==
    /\ close_log # <<>>
    /\ \A i \in DOMAIN close_log :
          \/ close_log[i].parent = "Group"
          \/ /\ i = Len(close_log)
             /\ close_log[i].kind = "Group"
             /\ close_log[i].parent = ""

\* C1 (as claimed): the cipher's decrypt is invoked exactly once for every
\* protected Value element: never twice while the element is open, and once
\* by the time it has closed, also when it has no text or several texts.
C1_OncePerProtectedValue ==
    /\ \A i \in DOMAIN reader : reader[i].prot => reader[i].decrypts <= 1
    /\ (last.ev = "End" /\ last.tag.prot) => last.tag.decrypts = 1

\* whether the protected branch fails on text c with the cipher at pos
ProtectedTextFails(c, pos, cipher_ok) ==
    \/ Base64Decode(Chars(c)) = None
    \/ ~cipher_ok
    \/ ~ValidUtf8(CipherDecrypt(pos, Base64Decode(Chars(c))[1]))

\* C2: when base64 decoding, the cipher or the UTF-8 check fails on the text
\* of a protected Value, the call returns an error at that event: the outcome
\* is an Err that carries no (Metadata, Group), and after an Err no event is
\* processed and no decrypt call is made.
C2_FailureAborts ==
    [][ /\ outcome.tag # "Err"
        /\ ( /\ last'.ev = "Characters"
             /\ xml_stack # <<>>
             /\ DecryptContext(Some(Top(xml_stack)), parsed_stack)
             /\ ProtectedTextFails(last'.text, inner_cipher, last'.cipher_ok) )
           => /\ outcome'.tag = "Err"
              /\ DOMAIN outcome' = {"tag", "kind"}
              /\ decrypts' <= decrypts + 1 ]_vars

C2_Witness ==
    /\ outcome.tag = "Err"
    /\ outcome.kind = "DatabaseIntegrity(utf8)"
    /\ decrypts = 2

\* C3: for a document whose Groups and Entries form one tree, the returned
\* root Group holds exactly the document's Groups and Entries, the children
\* of every Group in the order in which their elements closed, each tagged by
\* the kind of its element and at the depth of its element's Group nesting:
\* the post-order of the returned tree is the sequence of closes.
C3_TreePreserved ==
    (outcome.tag = "Ok" /\ TreeDocument)
        => PostOrder(outcome.root_group, 0) = ClosedElements

C3_Witness ==
    /\ outcome.tag = "Ok"
    /\ TreeDocument
    /\ Len(outcome.root_group.children) = 2
    /\ outcome.root_group.children[1].type = "Entry"
    /\ outcome.root_group.children[2].type = "Group"

\* C4 (as claimed): every Group or Entry completed so far is linked into
\* exactly one place: the children of one parent, or the root.
C4_EveryCompletedNodeLinked ==
    outcome.tag = "running"
        => \A i \in DOMAIN close_log : Occurrences(parsed_stack, root_group, close_log[i].uid) = 1

\* C4 (amended): a Group or Entry completed while a Group is the new top of
\* the builder stack is appended to that Group's children and to nothing
\* else; a Group completed with an empty builder stack becomes the root,
\* replacing any earlier root; every other completed Group or Entry is
\* discarded; and no node is ever linked in two places.
C4_LinkedOnceOrDiscarded ==
    [][ ( /\ reader' # reader
          /\ last'.ev = "End"
          /\ last'.finished \in {"Group", "Entry"}
          /\ outcome'.tag = "running" )
        => LET finished == Top(parsed_stack)
               rest     == Front(parsed_stack)
               Linked(u) == Occurrences(parsed_stack', root_group', u)
           IN  /\ \A u \in 0..created : Linked(u) <= 1
               /\ IF last'.head = "Group"
                  THEN /\ parsed_stack' = SetTop(rest, [Top(rest) EXCEPT
                              !.children = Append(@, finished)])
                       /\ root_group' = root_group
                       /\ Linked(finished.uid) = 1
                  ELSE IF last'.head = "" /\ last'.finished = "Group"
                  THEN /\ parsed_stack' = <<>>
                       /\ root_group' = finished
                       /\ Linked(finished.uid) = 1
                  ELSE /\ parsed_stack' = rest
                       /\ root_group' = root_group
                       /\ Linked(finished.uid) = 0 ]_vars

C4_Witness ==
    /\ last.ev = "End"
    /\ last.finished = "Entry"
    /\ last.head = "Group"
    /\ outcome.tag = "running"
    /\ Len(Top(parsed_stack).children) = 2

\* the parent types that the claim's table requires for a finished node
\* ("" stands for an empty builder stack)
RequiredParents(type) ==
    CASE type = "KeyValue" -> {"Entry"}
      [] type = "Entry" -> {"Group"}
      [] type = "Group" -> {"Group", ""}
      [] type = "AutoType" -> {"Entry"}
      [] type = "AutoTypeAssociation" -> {"AutoType"}
      [] type \in {"ExpiryTime", "Expires", "Icon"} -> {"Entry", "Group"}
      [] type = "CustomIcon" -> {"Metadata"}
      [] OTHER -> {}

Mismatched(ev) ==
    /\ ev.ev = "End"
    /\ ev.finished \notin {"", "Metadata"}
    /\ ev.head \notin RequiredParents(ev.finished)

\* C5: when a recognized element closes and the new top of the builder stack
\* is absent or not of the type required for the finished node, the node is
\* discarded: the call goes on, and but for the pop nothing changes in the
\* builder stack, the root group, the metadata or the cipher.
C5_MismatchDiscards ==
    [][ (reader' # reader /\ Mismatched(last'))
        => /\ outcome' = outcome
           /\ parsed_stack' = Front(parsed_stack)
           /\ root_group' = root_group
           /\ metadata' = metadata
           /\ inner_cipher' = inner_cipher ]_vars

C5_Witness ==
    /\ Mismatched(last)
    /\ last.finished = "Group"
    /\ last.head = "Entry"
    /\ root_group # DefaultGroup(0)

\* C6 (as claimed): no text of an ExpiryTime element that closes under an
\* Entry or a Group makes the call abort: the close of the element never
\* ends the call.
C6_TimestampNeverAborts ==
    ~(last.ev = "End" /\ last.finished = "ExpiryTime" /\ outcome.tag # "running")

\* C7 (as claimed): the call ends by returning Ok or by returning an error,
\* and a tokenizer error in the stream makes it return an error.
C7_OkOrErr ==
    /\ outcome.tag \in {"running", "Ok", "Err"}
    /\ last.ev = "Error" => outcome.tag = "Err"

IsProtectedKeyValue(n) == n.type = "KeyValue" /\ n.value.variant = "Protected"

\* C8: a KeyValue whose value is Protected stays Protected for as long as it
\* is on the builder stack, whatever events follow.
C8_ProtectedStays ==
    [][ \A i \in DOMAIN parsed_stack :
           (IsProtectedKeyValue(parsed_stack[i]) /\ i <= Len(parsed_stack'))
               => IsProtectedKeyValue(parsed_stack'[i]) ]_vars

C8_Witness ==
    /\ last.ev = "Start"
    /\ reader # <<>>
    /\ Top(reader).name = "Value"
    /\ ~last.requested
    /\ TopIs(parsed_stack, "KeyValue")
    /\ Top(parsed_stack).value = Protected(<<65>>)

\* C9: when a field element closes under an Entry, the Entry's field mapping
\* holds the value of that element for its key, replacing the value of any
\* earlier field element with the same key; the other keys keep their values.
C9_LastFieldWins ==
    [][ ( /\ reader' # reader
          /\ last'.ev = "End"
          /\ last'.finished = "KeyValue"
          /\ last'.head = "Entry" )
        => LET kv     == Top(parsed_stack)
               before == Top(Front(parsed_stack)).fields
               after  == Top(parsed_stack').fields
           IN  /\ DOMAIN after = DOMAIN before \cup {kv.key}
               /\ after[kv.key] = kv.value
               /\ \A k \in DOMAIN before \ {kv.key} : after[k] = before[k] ]_vars

C9_Witness ==
    /\ last.ev = "End"
    /\ last.overwrote
    /\ TopIs(parsed_stack, "Entry")
    /\ DOMAIN Top(parsed_stack).fields = {"k"}

\* C10: when the stream of a well-nested document has ended and the call
\* returns Ok, the builder stack and the element-name stack are empty.
C10_StacksEmptyAtEnd ==
    outcome.tag = "Ok" => (parsed_stack = <<>> /\ xml_stack = <<>>)

C10_Witness ==
    /\ outcome.tag = "Ok"
    /\ outcome.root_group.children # <<>>
    /\ parsed_stack = <<>>
    /\ xml_stack = <<>>

(***************************************************************************)
(* parse_xml_timestamp as a function: one call on the base64 encoding of   *)
(* the 8 little-endian bytes of a 64-bit offset.  doc holds the offset and *)
(* outcome the result of the call.                                         *)
(***************************************************************************)
RECURSIVE Base64Encode(_)
\* base64::encode (standard alphabet, padded)
Base64Encode(bs) ==
    LET Sym(v) == B64Alphabet[v + 1]
    IN  IF bs = <<>> THEN <<>>
        ELSE IF Len(bs) = 1
        THEN <<Sym(bs[1] \div 4), Sym((bs[1] % 4) * 16), "=", "=">>
        ELSE IF Len(bs) = 2
        THEN <<Sym(bs[1] \div 4), Sym((bs[1] % 4) * 16 + bs[2] \div 16),
               Sym((bs[2] % 16) * 4), "=">>
        ELSE <<Sym(bs[1] \div 4), Sym((bs[1] % 4) * 16 + bs[2] \div 16),
               Sym((bs[2] % 16) * 4 + bs[3] \div 64), Sym(bs[3] % 64)>>
                 \o Base64Encode(SubSeq(bs, 4, Len(bs)))

\* the offsets decoded: small and large ones of both signs, and the
\* ends of the ranges of NaiveDateTime and of Duration with their neighbours
I64Inputs ==
    {low \o <<s, s, s>> : low \in [1..5 -> {0, 1, 255}], s \in {0, 255}}
        \cup [1..8 -> {0, 255}]
        \cup {MaxEpochOffset, AddOne(MaxEpochOffset, 1),
              MinEpochOffset, I64Negate(AddOne(I64Negate(MinEpochOffset), 1)),
              MaxDurationSecs, AddOne(MaxDurationSecs, 1),
              MinDurationSecs, I64Negate(AddOne(I64Negate(MinDurationSecs), 1))}

TimestampInit ==
    /\ doc \in {[n |-> a] : a \in I64Inputs}
    /\ outcome = [tag |-> "running"]
    /\ xml_stack = <<>>
    /\ parsed_stack = <<>>
    /\ root_group = DefaultGroup(0)
    /\ metadata = None
    /\ inner_cipher = 0
    /\ reader = <<>>
    /\ created = 0
    /\ decrypts = 0
    /\ close_log = <<>>
    /\ last = NoEvent

DecodeEncoded ==
    /\ outcome.tag = "running"
    /\ outcome' = parse_xml_timestamp_chars(Base64Encode(doc.n))
    /\ UNCHANGED <<xml_stack, parsed_stack, root_group, metadata, inner_cipher,
                   reader, doc, created, decrypts, close_log, last>>

TimestampNext == DecodeEncoded

TimestampSpec == TimestampInit /\ [][TimestampNext]_vars

RECURSIVE MulAddSeconds(_, _, _)
\* the 8 little-endian bytes of d * 86400 + carry, from byte i on
MulAddSeconds(d, carry, i) ==
    IF i > 8 THEN <<>>
    ELSE LET cur == (d % 256) * 86400 + carry
         IN  <<cur % 256>> \o MulAddSeconds(d \div 256, cur \div 256, i + 1)

\* the seconds from 0001-01-01T00:00:00 to an instant, as an i64
SecondsSinceEpoch(ndt) ==
    IF ndt.days >= 0 THEN MulAddSeconds(ndt.days, ndt.secs, 1)
    ELSE I64Negate(MulAddSeconds(0 - ndt.days - 1, 86400 - ndt.secs, 1))

\* epoch + n lies within the years -262144 .. 262143 of NaiveDateTime
Representable(n) == ~I64Less(MaxEpochOffset, n) /\ ~I64Less(n, MinEpochOffset)

\* C11 (as claimed): for every 64-bit offset n the call on the base64
\* encoding of n's bytes returns the instant n seconds from the epoch; it
\* fails for no n.
C11_EveryOffsetDecoded ==
    outcome.tag # "running"
        => /\ outcome.tag = "Ok"
           /\ SecondsSinceEpoch(outcome.ndt) = doc.n

\* C11 (amended): for every offset n for which epoch + n is an instant of
\* NaiveDateTime the call returns that instant, n seconds from the epoch;
\* for every other n the call returns no instant.
C11_RepresentableOffsetDecoded ==
    outcome.tag # "running"
        => IF Representable(doc.n)
           THEN /\ outcome.tag = "Ok"
                /\ outcome.ndt.secs \in 0..86399
                /\ SecondsSinceEpoch(outcome.ndt) = doc.n
           ELSE outcome.tag # "Ok"

C11_Witness ==
    /\ outcome.tag = "Ok"
    /\ doc.n = <<1, 255, 255, 255, 255, 255, 255, 255>>
    /\ outcome.ndt = [days |-> 0 - 1, secs |-> 86400 - 255]

(***************************************************************************)
(* Further claims about parse_xml_block, under Spec.                       *)
(***************************************************************************)
\* C12: the cipher is used, and its keystream position moves, only in a step
\* that processes a Characters event while Value is the innermost open
\* element and a KeyValue with a Protected value is on top of the builder
\* stack; every other step leaves the cipher as it is.
C12_DecryptOnlyInContext ==
    [][ (inner_cipher' # inner_cipher \/ decrypts' # decrypts)
        => /\ last'.ev = "Characters"
           /\ xml_stack # <<>>
           /\ Top(xml_stack) = "Value"
           /\ parsed_stack # <<>>
           /\ Top(parsed_stack).type = "KeyValue"
           /\ Top(parsed_stack).value.variant = "Protected" ]_vars

C12_Witness ==
    /\ last.ev = "End"
    /\ last.tag.name = "String"
    /\ outcome.tag = "running"
    /\ decrypts = 1
    /\ inner_cipher = 1

\* the element names that stand for a builder node
StructuralNames ==
    {"Meta", "Group", "Entry", "String", "AutoType", "Association",
     "ExpiryTime", "Expires", "IconID", "CustomIconUUID", "Icon"}

\* the variants of the nodes of a builder stack
Variants(stack) ==
    [i \in DOMAIN stack |->
        IF stack[i].type = "Icon" THEN <<"Icon", stack[i].icon.variant>>
        ELSE <<stack[i].type>>]

\* C13: every element open pushes the element's local name on the
\* element-name stack and every element close pops it; the open and the
\* close of an element whose name stands for no builder node (Value among
\* them) leave the length of the builder stack and the variants of its
\* nodes as they are.
C13_NameStackFollowsElements ==
    [][ /\ last'.ev = "Start"
            => /\ xml_stack' = Append(xml_stack, Top(reader').name)
               /\ Top(reader').name \notin StructuralNames
                    => Variants(parsed_stack') = Variants(parsed_stack)
        /\ (last'.ev = "End" /\ reader' # reader /\ outcome'.tag = "running")
            => /\ xml_stack # <<>>
               /\ Top(xml_stack) = last'.tag.name
               /\ xml_stack' = Front(xml_stack)
               /\ last'.tag.name \notin StructuralNames
                    => Variants(parsed_stack') = Variants(parsed_stack) ]_vars

C13_Witness ==
    /\ last.ev = "End"
    /\ last.tag.name = "History"
    /\ xml_stack = <<"Group", "Entry">>
    /\ Variants(parsed_stack) = <<<<"Group">>, <<"Entry">>>>

\* whether the Protected attribute is present with a value that reads "true"
\* in whatever case
AttributeIsTrue(attr) ==
    attr # None /\ ToLowercase(Chars(attr[1])) = <<"t", "r", "u", "e">>

\* C14: the open of a Value element pushes no node.  When its Protected
\* attribute reads true and a KeyValue is on top of the builder stack, that
\* KeyValue gets the empty Protected value in place of its value and keeps
\* its key; otherwise the builder stack stays as it is.
C14_ValueOpen ==
    [][ (last'.ev = "Start" /\ Top(reader').name = "Value")
        => IF /\ AttributeIsTrue(last'.attr)
              /\ parsed_stack # <<>>
              /\ Top(parsed_stack).type = "KeyValue"
           THEN /\ Len(parsed_stack') = Len(parsed_stack)
                /\ Front(parsed_stack') = Front(parsed_stack)
                /\ Top(parsed_stack') =
                      [type |-> "KeyValue", key |-> Top(parsed_stack).key,
                       value |-> [variant |-> "Protected", secret |-> <<>>]]
           ELSE parsed_stack' = parsed_stack ]_vars

C14_Witness ==
    /\ last.ev = "Start"
    /\ last.attr = Some("True")
    /\ parsed_stack # <<>>
    /\ Top(parsed_stack) = [type |-> "KeyValue", key |-> "k",
                            value |-> [variant |-> "Protected", secret |-> <<>>]]

\* C15: after a Characters event that matches its element and the node on
\* top of the builder stack, the field it is meant for holds the content of
\* that event alone (for a protected Value: the decryption of its text),
\* whatever earlier Characters events of the same element left there.
C15_LastTextOverwrites ==
    [][ ( /\ vars' # vars
          /\ last'.ev = "Characters"
          /\ outcome'.tag = "running"
          /\ xml_stack # <<>>
          /\ parsed_stack # <<>> )
        => LET elem  == Top(xml_stack)
               type  == Top(parsed_stack).type
               old   == Top(parsed_stack)
               new   == Top(parsed_stack')
               c     == last'.text
           IN  CASE elem = "Name" /\ type = "Group" -> new.name = c
                 [] elem = "ExpiryTime" /\ type = "ExpiryTime" -> new.et = c
                 [] elem = "Expires" /\ type = "Expires" -> new.es = (c = "True")
                 [] elem = "Key" /\ type = "KeyValue" -> new.key = c
                 [] elem = "Value" /\ type = "KeyValue" ->
                       IF old.value.variant = "Unprotected"
                       THEN new.value = [variant |-> "Unprotected", text |-> c]
                       ELSE new.value =
                              [variant |-> "Protected",
                               secret |-> CipherDecrypt(inner_cipher,
                                             Base64Decode(Chars(c))[1])]
                 [] elem = "Enabled" /\ type = "AutoType" ->
                       new.enabled = (c = "true")
                 [] elem = "DefaultSequence" /\ type = "AutoType" ->
                       new.sequence = <<c>>
                 [] elem = "Window" /\ type = "AutoTypeAssociation" ->
                       new.window = <<c>>
                 [] elem = "KeystrokeSequence" /\ type = "AutoTypeAssociation" ->
                       new.sequence = <<c>>
                 [] elem = "CustomIconUUID" /\ type = "Icon"
                        /\ old.icon.variant = "CustomIcon" ->
                       new.icon = [variant |-> "CustomIcon", uuid |-> c]
                 [] elem = "Generator" /\ type = "Metadata" -> new.generator = c
                 [] elem = "DatabaseName" /\ type = "Metadata" -> new.name = c
                 [] elem = "DatabaseDescription" /\ type = "Metadata" ->
                       new.description = c
                 [] elem = "UUID" /\ type = "CustomIcon" -> new.uuid = c
                 [] elem = "Data" /\ type = "CustomIcon" -> new.data = c
                 [] OTHER -> TRUE ]_vars

\* the second text of a protected Value has replaced the first
C15_Witness ==
    /\ outcome.tag = "running"
    /\ reader # <<>>
    /\ Top(reader).prot
    /\ Top(reader).decrypts = 2
    /\ last.text = "/w=="
    /\ Top(parsed_stack).value = [variant |-> "Protected", secret |-> <<63>>]

RECURSIVE PlaceValue(_)
\* the number that a sequence of decimal digits denotes
PlaceValue(ds) ==
    IF ds = <<>> THEN 0
    ELSE (CHOOSE d \in 0..9 : Digits[d + 1] = ds[1]) * 10 ^ (Len(ds) - 1)
            + PlaceValue(Tail(ds))

\* the unsigned integer that a text denotes (digits, after an optional
\* plus sign), None when it denotes none
Denoted(cs) ==
    LET ds == IF cs # <<>> /\ cs[1] = "+" THEN Tail(cs) ELSE cs
    IN  IF ds # <<>> /\ \A i \in DOMAIN ds : ds[i] \in Range(Digits)
        THEN <<PlaceValue(ds)>>
        ELSE <<>>

\* a Characters event in an IconID element with an Icon(IconID) node on top
IconIdText ==
    /\ vars' # vars
    /\ last'.ev = "Characters"
    /\ xml_stack # <<>>
    /\ Top(xml_stack) = "IconID"
    /\ parsed_stack # <<>>
    /\ Top(parsed_stack).type = "Icon"
    /\ Top(parsed_stack).icon.variant = "IconID"

\* the close of an IconID or CustomIconUUID element under an Entry or a Group
IconClose ==
    /\ reader' # reader
    /\ last'.ev = "End"
    /\ last'.finished = "Icon"
    /\ last'.head \in {"Entry", "Group"}

\* C16 (as claimed): the icon id stored for the text of an IconID element is
\* the unsigned integer the text denotes, and 0 only for a text that denotes
\* none; at the close the parent's icon becomes the finished icon.
C16_IconIdIsDenotedInteger ==
    [][ /\ IconIdText
            => Top(parsed_stack').icon.id =
                  (IF Denoted(Chars(last'.text)) # <<>>
                   THEN Denoted(Chars(last'.text))[1] ELSE 0)
        /\ IconClose => Top(parsed_stack').icon = Top(parsed_stack).icon ]_vars

\* C16 (amended): the icon id stored for the text of an IconID element is
\* the unsigned integer the text denotes when that is at most 255, and 0 for
\* every other text: one that denotes no unsigned integer or one above 255;
\* at the close under an Entry or a Group the parent's icon becomes the
\* finished icon.
C16_IconIdIsDenotedByte ==
    [][ /\ IconIdText
            => Top(parsed_stack').icon.id =
                  (IF /\ Denoted(Chars(last'.text)) # <<>>
                      /\ Denoted(Chars(last'.text))[1] <= 255
                   THEN Denoted(Chars(last'.text))[1] ELSE 0)
        /\ IconClose => Top(parsed_stack').icon = Top(parsed_stack).icon ]_vars

C16_Witness ==
    /\ last.ev = "End"
    /\ last.finished = "Icon"
    /\ last.head = "Entry"
    /\ Top(parsed_stack).icon = [variant |-> "IconID", id |-> 7]

\* the close of a Meta element
MetaClose ==
    /\ reader' # reader
    /\ last'.ev = "End"
    /\ last'.finished = "Metadata"

\* C17: the close of a Meta element puts its Metadata node into the metadata
\* slot, whatever is then on top of the builder stack; no other event writes
\* the slot, which is absent at first; and Ok returns the slot.  So the
\* returned metadata is that of the Meta element that closed last, and is
\* absent when none closed.
C17_MetadataLastWins ==
    [][ /\ created = 0 => metadata = <<>>
        /\ (MetaClose /\ outcome'.tag = "running")
              => /\ metadata' = <<Top(parsed_stack)>>
                 /\ parsed_stack' = Front(parsed_stack)
        /\ (~MetaClose /\ outcome'.tag = "running") => metadata' = metadata
        /\ outcome'.tag = "Ok" => outcome'.metadata = metadata ]_vars

\* a later Meta element has closed and replaced the metadata of an earlier one
C17_Witness ==
    /\ last.ev = "End"
    /\ last.finished = "Metadata"
    /\ last.overwrote
    /\ metadata # <<>>
    /\ DOMAIN metadata[1].custom_icons = {"d1"}

\* the variant of the builder node that a structural element name stands for
VariantOf(name) ==
    CASE name = "Meta" -> <<"Metadata">>
      [] name = "Group" -> <<"Group">>
      [] name = "Entry" -> <<"Entry">>
      [] name = "String" -> <<"KeyValue">>
      [] name = "AutoType" -> <<"AutoType">>
      [] name = "Association" -> <<"AutoTypeAssociation">>
      [] name = "ExpiryTime" -> <<"ExpiryTime">>
      [] name = "Expires" -> <<"Expires">>
      [] name = "IconID" -> <<"Icon", "IconID">>
      [] name = "CustomIconUUID" -> <<"Icon", "CustomIcon">>
      [] name = "Icon" -> <<"CustomIcon">>

\* the variants that the structural names among the open elements stand for
ExpectedVariants(names) ==
    LET Structural(n) == n \in StructuralNames
        sel == SelectSeq(names, Structural)
    IN  [i \in DOMAIN sel |-> VariantOf(sel[i])]

\* C18: while the call runs over a well-nested stream, and when it has
\* returned Ok, the builder stack holds, position by position, the nodes
\* that the structural names on the element-name stack stand for; so the
\* pop at the close of a structural element never finds the builder stack
\* empty and removes a node of the variant of the closing element.
C18_StackCorrespondence ==
    /\ outcome.tag \in {"running", "Ok"}
          => Variants(parsed_stack) = ExpectedVariants(xml_stack)
    /\ ~(outcome.tag = "panic"
            /\ outcome.msg = "called Option::unwrap() on a None value")
    /\ (outcome.tag = "running" /\ last.ev = "End"
            /\ last.tag.name \in StructuralNames)
          => last.finished = VariantOf(last.tag.name)[1]

C18_Witness ==
    /\ outcome.tag = "running"
    /\ last.ev = "End"
    /\ last.tag.name = "Association"
    /\ last.finished = "AutoTypeAssociation"
    /\ xml_stack = <<"Entry", "AutoType">>
    /\ Variants(parsed_stack) = <<<<"Entry">>, <<"AutoType">>>>

\* C19: while an Entry is on the builder stack above another Entry, no event
\* changes the lower Entry: what is completed inside the nested Entry is
\* never written to the outer one.  When the nested Entry closes with the
\* outer Entry as the new top, it is dropped: the outer Entry and the root
\* group stay as they are and the nested Entry is in no Group's children.
C19_NestedEntryIsolated ==
    [][ /\ \A i \in DOMAIN parsed_stack : \A j \in DOMAIN parsed_stack :
              ( /\ i < j
                /\ parsed_stack[i].type = "Entry"
                /\ parsed_stack[j].type = "Entry"
                /\ i <= Len(parsed_stack') )
                  => parsed_stack'[i] = parsed_stack[i]
        /\ ( /\ reader' # reader
             /\ last'.ev = "End"
             /\ last'.finished = "Entry"
             /\ last'.head = "Entry" )
              => /\ outcome'.tag = "running"
                 /\ parsed_stack' = Front(parsed_stack)
                 /\ root_group' = root_group
                 /\ Occurrences(parsed_stack', root_group',
                                Top(parsed_stack).uid) = 0 ]_vars

\* an icon was completed inside a nested Entry; the outer Entry is untouched
C19_Witness ==
    /\ last.ev = "End"
    /\ last.finished = "Icon"
    /\ Len(parsed_stack) = 2
    /\ parsed_stack[1] = DefaultEntry(1)
    /\ parsed_stack[2].type = "Entry"
    /\ parsed_stack[2].icon = [variant |-> "IconID", id |-> 7]

\* the close of a Group element that leaves the builder stack empty
RootClose ==
    /\ reader' # reader
    /\ last'.ev = "End"
    /\ last'.finished = "Group"
    /\ last'.head = ""

\* C20: the root group is the default Group, with no name and no children,
\* until a Group element closes and leaves the builder stack empty; such a
\* close makes its Group the root group in place of the one before; no other
\* event writes the root group; and Ok returns it.  So the returned root is
\* the default Group when no such close happened and the Group of the last
\* such close otherwise.
C20_RootAssignedAtRootClose ==
    [][ /\ (\A i \in DOMAIN close_log :
               ~(close_log[i].kind = "Group" /\ close_log[i].parent = ""))
              => /\ root_group.name = ""
                 /\ root_group.children = <<>>
                 /\ root_group.uid = 0
        /\ (RootClose /\ outcome'.tag = "running")
              => /\ root_group' = Top(parsed_stack)
                 /\ parsed_stack' = <<>>
        /\ (~RootClose /\ outcome'.tag = "running") => root_group' = root_group
        /\ outcome'.tag = "Ok" => outcome'.root_group = root_group ]_vars

\* two Groups closed at the top level, the first with a child: the second
\* is returned
C20_Witness ==
    /\ outcome.tag = "Ok"
    /\ Len(close_log) = 3
    /\ close_log[2].kind = "Group"
    /\ close_log[2].parent = ""
    /\ close_log[3].kind = "Group"
    /\ close_log[3].parent = ""
    /\ outcome.root_group = DefaultGroup(close_log[3].uid)

=============================================================================
